---- MODULE Spec2Model ----
(***************************************************************************)
(* State-machine model of the streaming client of language-simplifier:     *)
(*   - WebSocketManager (webapp/src/ws.ts): open(), stop() and the four    *)
(*     socket handlers onopen / onmessage / onerror / onclose, with the    *)
(*     heartbeat interval and the backoff timeouts it creates;             *)
(*   - the output sink appendOut (webapp/src/ui.ts) and clearOut           *)
(*     (webapp/src/main.ts);                                               *)
(*   - the callbacks that startStream (webapp/src/main.ts) passes to the   *)
(*     manager.                                                            *)
(* The browser is single threaded: every handler, timer callback and       *)
(* animation-frame callback runs to completion, so each is one action.     *)
(*                                                                         *)
(* A string is modelled as a sequence of atoms; string concatenation is \o *)
(* and the empty string is << >>.                                          *)
(***************************************************************************)
EXTENDS Integers, Sequences, FiniteSets, TLC

\* ------------------------------------------------------------------ bounds
\* Number of WebSocket objects one manager may create in a behaviour.
MaxChannels == 3
\* Number of frames the client may send on one socket.
MaxFrames == 2
\* Number of appendOut calls in a behaviour.
MaxAppends == 4
\* Length of the arbitrary server transcripts (the scenario transcript of
\* Scenario is added to them).
MaxScript == 2

\* --------------------------------------------------------- program constants
\* maxRetries as configured by startStream.
maxRetries == 2
\* Base of the exponential backoff delay, in ms.
baseDelay == 500

VARIABLES
  chans,           \* every WebSocket this manager created, in creation order
  ws,              \* this.ws: index into chans, 0 = undefined
  retries,         \* this.retries
  closedByClient,  \* this.closedByClient
  heartbeatTimer,  \* this.heartbeatTimer: index into intervals, 0 = undefined
  intervals,       \* every window.setInterval timer created, by id
  timeouts,        \* the pending setTimeout(() => this.open()) timers, in the
                   \* order they were set: delay, and the history flag stopped
                   \* (the caller called stop() while the timer was pending
                   \* and has not called open() since)
  lastCall,        \* history: the caller's last call on the manager
  stopClean,       \* history: the socket the caller's last call, stop(),
                   \* closed while it was connecting or open and no backoff
                   \* timer was pending; 0 = none such
  wsStatus,        \* text of #wsStatus
  calls,           \* history: callbacks of opts invoked so far, in order
  inbox,           \* what the transport has still to deliver, in order: the
                   \* server's frames and error events (as ErrorEvent)
  received,        \* history: raw frames delivered to onmessage, and error
                   \* events delivered to onerror (as ErrorEvent), in order
  buffer,          \* ui.ts: buffer
  rafPending,      \* ui.ts: rafPending
  rafQueue,        \* number of requestAnimationFrame callbacks scheduled
  out,             \* textContent of #out
  frags,           \* history: arguments of the appendOut calls, in order
  flushed,         \* history: Len(frags) when the last render pass ran
  cleared,         \* history: Len(frags) when clearOut was last called
  paints           \* history: number of writes to #out by render passes

sessionVars == <<chans, ws, retries, closedByClient, heartbeatTimer,
                 intervals, timeouts, lastCall, stopClean>>
streamVars  == <<wsStatus, calls, inbox, received>>
sinkVars    == <<buffer, rafPending, rafQueue, out, frags, flushed, cleared,
                 paints>>
vars == <<chans, ws, retries, closedByClient, heartbeatTimer, intervals,
          timeouts, lastCall, stopClean, wsStatus, calls, inbox, received, buffer,
          rafPending, rafQueue, out, frags, flushed, cleared, paints>>

\* ------------------------------------------------------------------ values
\* A socket as created by new WebSocket(...): readyState CONNECTING, nothing
\* sent.  wasOpen is history: the socket has had its open event.
NewSocket == [state |-> "connecting", sent |-> <<>>, wasOpen |-> FALSE]

\* JSON.stringify(this.opts.init) and the heartbeat frame.
InitFrame == "init"
PingFrame == "ping"

\* A raw inbound frame: json says whether JSON.parse accepts it; type and
\* data are the fields of the parsed object (hasData: the data field exists).
Frame(t, has, d) == [json |-> TRUE, type |-> t, hasData |-> has, data |-> d]
NotJson == [json |-> FALSE, type |-> "", hasData |-> FALSE, data |-> <<>>]
Token(d) == Frame("token", TRUE, d)
StartFrame == Frame("start", FALSE, <<>>)
EndFrame == Frame("end", FALSE, <<>>)

\* The entry of inbox and received that stands for an error event.
ErrorEvent == [json |-> FALSE, type |-> "ws_error", hasData |-> FALSE, data |-> <<>>]

Frames ==
  { StartFrame, EndFrame,
    Token(<<"Hello">>), Token(<<" ">>), Token(<<"world">>),
    Frame("token", FALSE, <<>>),
    Frame("error", TRUE, <<"quota exceeded">>), Frame("error", FALSE, <<>>),
    Frame("pong", FALSE, <<>>), NotJson }

\* The transcript of the streaming scenario: start, three tokens, end.
Scenario ==
  <<StartFrame, Token(<<"Hello">>), Token(<<" ">>), Token(<<"world">>), EndFrame>>

SeqsUpTo(S, n) == UNION { [1..k -> S] : k \in 0..n }

Scripts == SeqsUpTo(Frames \cup {ErrorEvent}, MaxScript) \cup {Scenario}

\* Fragments the page may pass to appendOut directly.
Fragments == { <<>>, <<"a">>, <<"b">> }

DoneText == <<"\n\n- done -">>
ErrorText(e) == <<"\n[error] ">> \o e

Call(cb, arg) == [cb |-> cb, arg |-> arg]

\* ------------------------------------------------------------- output sink
\* appendOut with the rafPending test dropped: every call schedules a pass.
appendOut_AlwaysSchedule(s) ==
  /\ Len(frags) < MaxAppends
  /\ buffer' = buffer \o s
  /\ rafPending' = TRUE
  /\ rafQueue' = rafQueue + 1
  /\ frags' = Append(frags, s)
  /\ UNCHANGED <<out, flushed, cleared, paints>>

\* ui.ts appendOut(s).
appendOut(s) ==
  /\ Len(frags) < MaxAppends
  /\ buffer' = buffer \o s
  /\ IF ~rafPending
       THEN rafPending' = TRUE /\ rafQueue' = rafQueue + 1
       ELSE UNCHANGED <<rafPending, rafQueue>>
  /\ frags' = Append(frags, s)
  /\ UNCHANGED <<out, flushed, cleared, paints>>

\* The render pass without buffer = "": the buffer is rendered again by
\* the next pass.
RenderPass_KeepsBuffer ==
  /\ rafQueue > 0
  /\ rafQueue' = rafQueue - 1
  /\ out' = out \o buffer
  /\ rafPending' = FALSE
  /\ flushed' = Len(frags)
  /\ paints' = paints + 1
  /\ UNCHANGED <<buffer, frags, cleared>>

\* The callback appendOut hands to requestAnimationFrame.
RenderPass ==
  /\ rafQueue > 0
  /\ rafQueue' = rafQueue - 1
  /\ out' = out \o buffer
  /\ buffer' = <<>>
  /\ rafPending' = FALSE
  /\ flushed' = Len(frags)
  /\ paints' = paints + 1
  /\ UNCHANGED <<frags, cleared>>

\* main.ts clearOut().
clearOut ==
  /\ out' = <<>>
  /\ cleared' = Len(frags)
  /\ UNCHANGED <<buffer, rafPending, rafQueue, frags, flushed, paints>>

\* ---------------------------------------------- callbacks given by main.ts
onToken(s) ==
  /\ calls' = Append(calls, Call("onToken", s))
  /\ appendOut(s)
  /\ UNCHANGED wsStatus

onStart ==
  /\ calls' = Append(calls, Call("onStart", <<>>))
  /\ wsStatus' = "connected"
  /\ UNCHANGED sinkVars

onEnd ==
  /\ calls' = Append(calls, Call("onEnd", <<>>))
  /\ appendOut(DoneText)
  /\ UNCHANGED wsStatus

onError(e) ==
  /\ calls' = Append(calls, Call("onError", e))
  /\ appendOut(ErrorText(e))
  /\ UNCHANGED wsStatus

NoCallback == UNCHANGED <<calls, wsStatus>> /\ UNCHANGED sinkVars

\* --------------------------------------------------------------- WebSocket
\* WebSocket.send(frame) on socket c of cs, for readyState OPEN, CLOSING or
\* CLOSED: transmitted when OPEN, silently dropped otherwise.  (Called in
\* CONNECTING it throws InvalidStateError; the callers handle that case.)
Send(cs, c, frame) ==
  IF cs[c].state = "open"
    THEN [cs EXCEPT ![c].sent = Append(@, frame)]
    ELSE cs

\* WebSocket.close(1000, "client stop") on socket c of cs: CONNECTING and
\* OPEN become CLOSING; CLOSING and CLOSED are left alone.
Close(cs, c) ==
  IF cs[c].state \in {"connecting", "open"}
    THEN [cs EXCEPT ![c].state = "closing"]
    ELSE cs

\* window.clearInterval(this.heartbeatTimer), guarded by if (this.heartbeatTimer).
ClearHeartbeat ==
  IF heartbeatTimer # 0
    THEN [intervals EXCEPT ![heartbeatTimer].live = FALSE]
    ELSE intervals

\* -------------------------------------------------------- WebSocketManager
\* open(): a new socket replaces this.ws; nothing else is touched.
open ==
  /\ Len(chans) < MaxChannels
  /\ chans' = Append(chans, NewSocket)
  /\ ws' = Len(chans) + 1
  /\ UNCHANGED <<retries, closedByClient, heartbeatTimer, intervals>>
  /\ UNCHANGED streamVars /\ UNCHANGED sinkVars

\* stop() that flips the flag instead of setting it.
stop_Toggle ==
  /\ closedByClient' = ~closedByClient
  /\ intervals' = ClearHeartbeat
  /\ chans' = IF ws # 0 THEN Close(chans, ws) ELSE chans
  /\ UNCHANGED <<ws, retries, heartbeatTimer>>
  /\ UNCHANGED streamVars /\ UNCHANGED sinkVars

\* stop().
stop ==
  /\ closedByClient' = TRUE
  /\ intervals' = ClearHeartbeat
  /\ chans' = IF ws # 0 THEN Close(chans, ws) ELSE chans
  /\ UNCHANGED <<ws, retries, heartbeatTimer>>
  /\ UNCHANGED streamVars /\ UNCHANGED sinkVars

\* A timer as set by setTimeout(f, d).
Timer(d) == [delay |-> d, stopped |-> FALSE]

\* The delay with the counter incremented before it is read (++retries).
Delay_PreIncrement(a) == baseDelay * 2^(a + 1)

\* The backoff delay computed by onclose.
Delay(a) == baseDelay * 2^a

\* ws.onopen of socket c: the socket is OPEN when the handler runs.  The
\* handler sends on this.ws, which is socket c only if open() was not called
\* since; a send on a CONNECTING socket throws and ends the handler.
onopen(c) ==
  /\ chans[c].state = "connecting"
  /\ retries' = 0
  /\ closedByClient' = FALSE
  /\ LET opened == [chans EXCEPT ![c].state = "open", ![c].wasOpen = TRUE] IN
       IF opened[ws].state = "connecting"
         THEN /\ chans' = opened
              /\ UNCHANGED <<heartbeatTimer, intervals>>
              /\ NoCallback
         ELSE /\ chans' = Send(opened, ws, InitFrame)
              /\ onStart
              /\ intervals' = Append(intervals, [live |-> TRUE, owner |-> c])
              /\ heartbeatTimer' = Len(intervals) + 1
  /\ UNCHANGED <<ws, timeouts, lastCall, stopClean, inbox, received>>

\* The heartbeat callback of interval t.
heartbeat(t) ==
  /\ intervals[t].live
  /\ IF ws # 0 /\ chans[ws].state = "open"
       THEN /\ Len(chans[ws].sent) < MaxFrames
            /\ chans' = Send(chans, ws, PingFrame)
       ELSE UNCHANGED chans
  /\ UNCHANGED <<ws, retries, closedByClient, heartbeatTimer, intervals,
                 timeouts, lastCall, stopClean>>
  /\ UNCHANGED streamVars /\ UNCHANGED sinkVars

\* dispatch without the branch for "start" frames.
dispatch_StartIgnored(m) ==
  IF ~m.json THEN NoCallback
  ELSE IF m.type = "token" THEN onToken(IF m.hasData THEN m.data ELSE <<>>)
  ELSE IF m.type = "end" THEN onEnd
  ELSE IF m.type = "error"
         THEN onError(IF m.hasData /\ m.data # <<>> THEN m.data ELSE <<"error">>)
  ELSE NoCallback

\* dispatch with onError(m.data) in place of onError(m.data || "error").
dispatch_NoErrorDefault(m) ==
  IF ~m.json THEN NoCallback
  ELSE IF m.type = "token" THEN onToken(IF m.hasData THEN m.data ELSE <<>>)
  ELSE IF m.type = "start" THEN onStart
  ELSE IF m.type = "end" THEN onEnd
  ELSE IF m.type = "error"
         THEN onError(IF m.hasData THEN m.data ELSE <<"undefined">>)
  ELSE NoCallback

\* dispatch with a catch block that reports the parse failure.
dispatch_MalformedAsError(m) ==
  IF ~m.json THEN onError(<<"error">>)
  ELSE IF m.type = "token" THEN onToken(IF m.hasData THEN m.data ELSE <<>>)
  ELSE IF m.type = "start" THEN onStart
  ELSE IF m.type = "end" THEN onEnd
  ELSE IF m.type = "error"
         THEN onError(IF m.hasData /\ m.data # <<>> THEN m.data ELSE <<"error">>)
  ELSE NoCallback

\* The callback ws.onmessage invokes for the raw frame m.
dispatch(m) ==
  IF ~m.json THEN NoCallback
  ELSE IF m.type = "token" THEN onToken(IF m.hasData THEN m.data ELSE <<>>)
  ELSE IF m.type = "start" THEN onStart
  ELSE IF m.type = "end" THEN onEnd
  ELSE IF m.type = "error"
         THEN onError(IF m.hasData /\ m.data # <<>> THEN m.data ELSE <<"error">>)
  ELSE NoCallback

\* ws.onmessage of socket c, for the next frame of the server.
onmessage(c) ==
  /\ chans[c].state = "open"
  /\ inbox # <<>>
  /\ Head(inbox) # ErrorEvent
  /\ inbox' = Tail(inbox)
  /\ received' = Append(received, Head(inbox))
  /\ dispatch(Head(inbox))
  /\ UNCHANGED sessionVars

\* onerror that also closes the socket.
onerror_Closes(c) ==
  /\ chans[c].state # "closed"
  /\ inbox # <<>>
  /\ Head(inbox) = ErrorEvent
  /\ inbox' = Tail(inbox)
  /\ received' = Append(received, ErrorEvent)
  /\ onError(<<"ws_error">>)
  /\ chans' = Close(chans, c)
  /\ UNCHANGED <<ws, retries, closedByClient, heartbeatTimer, intervals,
                 timeouts, lastCall, stopClean>>

\* ws.onerror of socket c.
onerror(c) ==
  /\ chans[c].state # "closed"
  /\ inbox # <<>>
  /\ Head(inbox) = ErrorEvent
  /\ inbox' = Tail(inbox)
  /\ received' = Append(received, ErrorEvent)
  /\ onError(<<"ws_error">>)
  /\ UNCHANGED sessionVars

\* ws.onclose of socket c: the socket is CLOSED when the handler runs.
onclose(c) ==
  /\ chans[c].state # "closed"
  /\ chans' = [chans EXCEPT ![c].state = "closed"]
  /\ intervals' = ClearHeartbeat
  /\ IF ~closedByClient /\ retries < maxRetries
       THEN /\ timeouts' = Append(timeouts, Timer(Delay(retries)))
            /\ retries' = retries + 1
       ELSE UNCHANGED <<timeouts, retries>>
  /\ UNCHANGED <<ws, closedByClient, heartbeatTimer, lastCall, stopClean>>
  /\ UNCHANGED streamVars /\ UNCHANGED sinkVars

\* ----------------------------------------------------------------- actions
\* The caller calls open().
Mark(q, b) == [i \in DOMAIN q |-> [q[i] EXCEPT !.stopped = b]]

CallOpen ==
  /\ open
  /\ lastCall' = "open"
  /\ stopClean' = 0
  /\ timeouts' = Mark(timeouts, FALSE)

\* The caller calls stop().
CallStop ==
  /\ stop
  /\ lastCall' = "stop"
  /\ stopClean' = IF ws # 0 /\ chans[ws].state \in {"connecting", "open"}
                        /\ timeouts = <<>>
                   THEN ws ELSE 0
  /\ timeouts' = Mark(timeouts, TRUE)

\* A pending timeout may fire unless an earlier one is due no later.
Due(i) == \A j \in 1..(i - 1) : timeouts[j].delay > timeouts[i].delay

\* setInterval in place of setTimeout: the timer stays armed after it fires.
RemoveAt_Keeps(q, i) == q

RemoveAt(q, i) == SubSeq(q, 1, i - 1) \o SubSeq(q, i + 1, Len(q))

\* The backoff timeout i fires: () => this.open().
TimeoutFire ==
  \E i \in DOMAIN timeouts :
    /\ Due(i)
    /\ timeouts' = RemoveAt(timeouts, i)
    /\ open
    /\ UNCHANGED <<lastCall, stopClean>>

\* The connection of socket c is established.
SocketOpened == \E c \in DOMAIN chans : onopen(c)

\* The connection of socket c fails, is dropped or closed by the server, or
\* the closing handshake started by close() ends.
SocketClosed == \E c \in DOMAIN chans : onclose(c)

\* An interval timer ticks.
HeartbeatTick == \E t \in DOMAIN intervals : heartbeat(t)

\* The server's next frame arrives on an open socket.
Deliver == \E c \in DOMAIN chans : onmessage(c)

\* A transport error is reported on a socket.
SocketError == \E c \in DOMAIN chans : onerror(c)

\* The page calls appendOut on its own.
Append1 ==
  /\ \E s \in Fragments : appendOut(s)
  /\ UNCHANGED sessionVars /\ UNCHANGED streamVars

\* A display-refresh tick runs the scheduled render pass.
RenderTick == RenderPass /\ UNCHANGED sessionVars /\ UNCHANGED streamVars

\* The clear button.
Clear == clearOut /\ UNCHANGED sessionVars /\ UNCHANGED streamVars

\* ---------------------------------------------------------- specifications
InitSession ==
  /\ chans = <<>>
  /\ ws = 0
  /\ retries = 0
  /\ closedByClient = FALSE
  /\ heartbeatTimer = 0
  /\ intervals = <<>>
  /\ timeouts = <<>>
  /\ lastCall = "none"
  /\ stopClean = 0
  /\ wsStatus = ""
  /\ calls = <<>>
  /\ received = <<>>

InitSink ==
  /\ buffer = <<>>
  /\ rafPending = FALSE
  /\ rafQueue = 0
  /\ out = <<>>
  /\ frags = <<>>
  /\ flushed = 0
  /\ cleared = 0
  /\ paints = 0

\* The manager's life cycle: any calls of open() and stop(), any socket
\* events and timer firings; the server sends nothing.
Init == InitSession /\ InitSink /\ inbox = <<>>

Next ==
  \/ CallOpen
  \/ CallStop
  \/ TimeoutFire
  \/ SocketOpened
  \/ SocketClosed
  \/ HeartbeatTick

Spec == Init /\ [][Next]_vars

\* The output sink alone: the page appends, the display ticks, the user
\* clears.
SinkNext == Append1 \/ RenderTick \/ Clear

SinkSpec == Init /\ [][SinkNext]_vars

\* The output sink with the display refreshing: a scheduled animation-frame
\* callback is eventually run.
SinkFairSpec == SinkSpec /\ WF_vars(RenderTick)

\* One streaming session: the caller opens once, the socket opens, and the
\* server plays one of Scripts while heartbeat and display ticks interleave;
\* the transport may report errors and the socket may close.
StreamInit == InitSession /\ InitSink /\ inbox \in Scripts

FirstOpen == chans = <<>> /\ CallOpen

StreamNext ==
  \/ FirstOpen
  \/ SocketOpened
  \/ Deliver
  \/ SocketError
  \/ SocketClosed
  \/ HeartbeatTick
  \/ RenderTick

StreamSpec == StreamInit /\ [][StreamNext]_vars

\* The caller calls open() once and stop() at any moments; sockets open and
\* close and the timers fire.
OneOpenNext ==
  \/ FirstOpen
  \/ CallStop
  \/ TimeoutFire
  \/ SocketOpened
  \/ SocketClosed
  \/ HeartbeatTick

OneOpenSpec == Init /\ [][OneOpenNext]_vars

\* ------------------------------------------------------------------ claims
Live == { c \in DOMAIN chans : chans[c].state \in {"connecting", "open"} }

\* Socket c has its close event in this step.
CloseEvent(c) == chans[c].state # "closed" /\ chans'[c].state = "closed"

\* Socket c has its open event in this step.
OpenEvent(c) == chans[c].state = "connecting" /\ chans'[c].state = "open"

\* A ping is transmitted on socket c in this step.
PingSent(c) ==
  /\ Len(chans'[c].sent) = Len(chans[c].sent) + 1
  /\ chans'[c].sent[Len(chans'[c].sent)] = PingFrame

Count(q, x) == Cardinality({ i \in DOMAIN q : q[i] = x })

CountCalls(cb) == Cardinality({ i \in DOMAIN calls : calls[i].cb = cb })

RECURSIVE Flatten(_)
Flatten(q) == IF q = <<>> THEN <<>> ELSE Head(q) \o Flatten(Tail(q))

\* C1: once the caller has called stop() while a backoff timer was pending,
\* no socket is created until the caller itself calls open() again.
C1_StopCancelsRetry ==
  [][(\E i \in DOMAIN timeouts : timeouts[i].stopped) /\ lastCall' # "open"
       => Len(chans') = Len(chans)]_vars

\* C2: at most one socket of the manager is connecting or open at any time.
C2_SingleChannel == Cardinality(Live) <= 1

\* C3: a close event with closedByClient false and counter a schedules a
\* reconnect iff a < maxRetries, with delay 500 * 2^a, and makes the counter
\* a + 1; an open event resets the counter to 0.  With maxRetries = 2 the
\* delays are 500 at counter 0, 1000 at counter 1, and at counter 2 nothing
\* is scheduled.
C3_Backoff ==
  [][\A c \in DOMAIN chans :
       /\ (CloseEvent(c) /\ ~closedByClient /\ retries < maxRetries) =>
            /\ Len(timeouts') = Len(timeouts) + 1
            /\ SubSeq(timeouts', 1, Len(timeouts)) = timeouts
            /\ timeouts'[Len(timeouts')].delay = 500 * 2^retries
            /\ retries' = retries + 1
       /\ (CloseEvent(c) /\ ~closedByClient /\ retries >= maxRetries) =>
            /\ timeouts' = timeouts
            /\ retries' = retries
       /\ (CloseEvent(c) /\ ~closedByClient /\ maxRetries = 2) =>
            /\ retries = 0 => timeouts' = Append(timeouts, Timer(500))
            /\ retries = 1 => timeouts' = Append(timeouts, Timer(1000))
            /\ retries = 2 => timeouts' = timeouts
            /\ retries \in 0..2
       /\ OpenEvent(c) => retries' = 0
    ]_vars

\* C3 witness: three sockets closed unexpectedly without any open: reconnects
\* were scheduled at 500 ms and 1000 ms, and none for the third closure.
C3_Witness ==
  /\ Len(chans) = 3
  /\ \A c \in DOMAIN chans : chans[c].state = "closed" /\ ~chans[c].wasOpen
  /\ ~closedByClient /\ lastCall = "open"
  /\ retries = 2
  /\ timeouts = <<Timer(500), Timer(1000)>>

\* C4: the close event of a socket that stop() closed (it is CLOSING when
\* the event arrives) never schedules a reconnect.
C4_ClientCloseNeverRetries ==
  [][\A c \in DOMAIN chans :
       (chans[c].state = "closing" /\ CloseEvent(c)) => timeouts' = timeouts
    ]_vars

\* C5: a tick of interval t transmits only on the socket whose open event
\* started t, and only while that socket is open.
C5_PingOnOwner ==
  [][\A t \in DOMAIN intervals :
       heartbeat(t) =>
         \A c \in DOMAIN chans :
           PingSent(c) => (c = intervals[t].owner /\ chans[c].state = "open")
    ]_vars

\* C6: from the caller's stop() until the caller's next open(), no ping is
\* transmitted on any socket.
C6_NoPingAfterStop ==
  [][(lastCall = "stop" /\ lastCall' = "stop") =>
       \A c \in DOMAIN chans : ~PingSent(c)]_vars

\* C7: on every socket that has had its open event, the init payload was
\* sent exactly once and is the first frame sent.
C7_InitFirstOnce ==
  \A c \in DOMAIN chans :
    chans[c].wasOpen =>
      /\ chans[c].sent # <<>>
      /\ chans[c].sent[1] = InitFrame
      /\ Count(chans[c].sent, InitFrame) = 1

\* The fragments appended since the last render pass.
Pending == SubSeq(frags, flushed + 1, Len(frags))

\* C8: while fragments appended since the last display tick are pending,
\* exactly one render pass is scheduled; the pass appends their concatenation,
\* in call order, to the output in one write and leaves the buffer empty
\* and no pass scheduled.
C8_OnePassPerTick ==
  [][/\ rafQueue' <= 1
     /\ Pending' # <<>> => rafQueue' = 1
     /\ paints' # paints =>
          /\ paints' = paints + 1
          /\ out' = out \o Flatten(Pending)
          /\ buffer' = <<>>
          /\ rafQueue' = 0
          /\ ~rafPending'
    ]_vars

\* C8 witness: two different fragments were appended between two ticks and
\* one pass has rendered both.
C8_Witness ==
  /\ frags = << <<"a">>, <<"b">> >>
  /\ flushed = 2
  /\ paints = 1
  /\ out = <<"a", "b">>
  /\ buffer = <<>>
  /\ rafQueue = 0

\* C9: the rendered output holds only fragments appended after the last
\* clear(): clear() drops the pending buffer together with the output.
C9_ClearDropsPending ==
  out = Flatten(SubSeq(frags, cleared + 1, flushed))

\* The scenario has been played: the socket opened once, the server sent
\* start, "Hello", " ", "world" and end, and the one render pass so far ran
\* after the third token and before the end frame was handled.
ScenarioPlayed ==
  /\ Len(chans) = 1
  /\ received = Scenario
  /\ paints = 1
  /\ flushed = 3

\* C10 as stated: in the scenario onStart is invoked exactly once, onEnd
\* exactly once, and the output is "Hello world" after one paint.
C10_ScenarioOnStartOnce ==
  ScenarioPlayed =>
    /\ CountCalls("onStart") = 1
    /\ CountCalls("onEnd") = 1
    /\ out = <<"Hello", " ", "world">>

\* C10 amended: in the scenario onStart is invoked exactly twice (by the open
\* event and by the start frame), onEnd exactly once, and the output is
\* "Hello world" after one paint.
C10_ScenarioOnStartTwice ==
  ScenarioPlayed =>
    /\ CountCalls("onStart") = 2
    /\ CountCalls("onEnd") = 1
    /\ out = <<"Hello", " ", "world">>
    /\ calls = << Call("onStart", <<>>), Call("onStart", <<>>),
                  Call("onToken", <<"Hello">>), Call("onToken", <<" ">>),
                  Call("onToken", <<"world">>), Call("onEnd", <<>>) >>

\* C10 witness: the scenario has been played.
C10_Witness == ScenarioPlayed /\ out = <<"Hello", " ", "world">>

\* The callbacks the inbound event m selects, as a sequence of calls.
Image(m) ==
  IF m = ErrorEvent THEN <<Call("onError", <<"ws_error">>)>>
  ELSE IF ~m.json THEN <<>>
  ELSE IF m.type = "token"
         THEN <<Call("onToken", IF m.hasData THEN m.data ELSE <<>>)>>
  ELSE IF m.type = "start" THEN <<Call("onStart", <<>>)>>
  ELSE IF m.type = "end" THEN <<Call("onEnd", <<>>)>>
  ELSE IF m.type = "error"
         THEN <<Call("onError",
                     IF m.hasData /\ m.data # <<>> THEN m.data ELSE <<"error">>)>>
  ELSE <<>>

RECURSIVE ImageSeq(_)
ImageSeq(q) == IF q = <<>> THEN <<>> ELSE Image(Head(q)) \o ImageSeq(Tail(q))

\* The onStart the open event of the session's socket invokes.
OpenCalls ==
  IF \E c \in DOMAIN chans : chans[c].wasOpen
    THEN <<Call("onStart", <<>>)>> ELSE <<>>

\* The event m is delivered to its handler in this step.
Delivered(m) == received' = Append(received, m)

\* C11: the callbacks invoked are the image of the events received, frame by
\* frame and in the order received, with the onStart of the open event at
\* the place the open event has among them: token -> onToken(data or ""),
\* start -> onStart, end -> onEnd, error -> onError(data or "error"), error
\* event -> onError("ws_error"), anything else -> nothing.
C11_DispatchImage ==
  \E k \in 0..Len(received) :
    calls = ImageSeq(SubSeq(received, 1, k)) \o OpenCalls
              \o ImageSeq(SubSeq(received, k + 1, Len(received)))

\* C11 witness: a token frame without data and an error event were received
\* and dispatched in that order.
C11_Witness ==
  /\ received = <<Frame("token", FALSE, <<>>), ErrorEvent>>
  /\ calls = <<Call("onStart", <<>>), Call("onToken", <<>>),
               Call("onError", <<"ws_error">>)>>

\* C12: a frame that does not parse invokes no callback and changes nothing
\* of the session, the status line or the output sink; the frame received
\* right after it is dispatched as usual.
C12_MalformedIgnored ==
  [][/\ Delivered(NotJson) =>
          /\ calls' = calls
          /\ UNCHANGED <<chans, ws, retries, closedByClient, heartbeatTimer,
                         intervals, timeouts>>
          /\ UNCHANGED <<wsStatus, buffer, rafPending, rafQueue, out>>
     /\ \A m \in Frames :
          (received # <<>> /\ received[Len(received)] = NotJson /\ Delivered(m))
            => calls' = calls \o Image(m)
    ]_vars

\* C12 witness: a frame that does not parse was received, then a token, and
\* only the token was dispatched.
C12_Witness ==
  /\ received = <<NotJson, Token(<<"Hello">>)>>
  /\ calls = <<Call("onStart", <<>>), Call("onToken", <<"Hello">>)>>
  /\ \E c \in DOMAIN chans : chans[c].state = "open"

\* A call of stop() that would change the manager, a timer or a socket.
StopChanges ==
  /\ stop
  /\ <<chans, ws, retries, closedByClient, heartbeatTimer, intervals>>'
       # <<chans, ws, retries, closedByClient, heartbeatTimer, intervals>>
  /\ UNCHANGED <<timeouts, lastCall, stopClean>>

\* C13: stop() can be called in every state, and a second stop() right after
\* a stop() changes nothing: the state after two calls is the state after
\* one.
C13_StopIdempotent ==
  [][/\ ENABLED CallStop
     /\ CallStop => /\ (ENABLED CallStop)'
                    /\ ~(ENABLED StopChanges)'
    ]_vars

\* C13 witness: stop() has been called with a socket open and a heartbeat
\* running, after an earlier socket had failed and been closed.
C13_Witness ==
  /\ lastCall = "stop"
  /\ ws = 2
  /\ chans[1].state = "closed"
  /\ chans[2].state = "closing" /\ chans[2].wasOpen
  /\ heartbeatTimer # 0
  /\ closedByClient

\* C14: open() resets closedByClient: right after any call of open(), by the
\* caller or by a backoff timer, closedByClient is false.
C14_OpenResetsFlag ==
  [][Len(chans') > Len(chans) => ~closedByClient']_vars

\* The heartbeat intervals that have not been cleared.
LiveIntervals == { t \in DOMAIN intervals : intervals[t].live }

\* Nothing is left that could create a socket or report an event: every
\* socket is closed and no backoff timer is pending.
Exhausted ==
  /\ chans # <<>>
  /\ \A c \in DOMAIN chans : chans[c].state = "closed"
  /\ timeouts = <<>>

\* C15: once every socket has closed and no reconnect is pending, the session
\* is quiescent: no heartbeat timer is left running either.
C15_ExhaustedIsQuiescent == Exhausted => LiveIntervals = {}

C17_ErrorsLeaveSession ==
  [][/\ \A m \in Frames \cup {ErrorEvent} :
          (Delivered(m) /\ (m = ErrorEvent \/ (m.json /\ m.type = "error")))
            => UNCHANGED <<chans, ws, retries, closedByClient, heartbeatTimer,
                           intervals, timeouts>>
     /\ timeouts' # timeouts => \E c \in DOMAIN chans : CloseEvent(c)
    ]_vars

\* C17 witness: an error frame and an error event have been handled and the
\* socket is still open, with its heartbeat running and no retry scheduled.
C17_Witness ==
  /\ received = <<Frame("error", TRUE, <<"quota exceeded">>), ErrorEvent>>
  /\ calls = <<Call("onStart", <<>>), Call("onError", <<"quota exceeded">>),
               Call("onError", <<"ws_error">>)>>
  /\ chans[1].state = "open"
  /\ intervals[1].live
  /\ timeouts = <<>> /\ retries = 0

\* The sockets whose close event is still to come.
NotClosed == { c \in DOMAIN chans : chans[c].state # "closed" }

\* C18: when the caller calls open() once, and stop() at any moments, at most
\* one socket is connecting or open at any time, and it is this.ws: a socket
\* that has not closed and a pending backoff timer never coexist, so a new
\* socket is created only by the timer the previous socket's close set.
C18_OneOpenOneLive ==
  /\ Cardinality(Live) <= 1
  /\ Live \subseteq {ws}
  /\ Cardinality(NotClosed) + Len(timeouts) <= 1

\* C18 witness: after one open() and a stop(), the timers have replaced the
\* socket twice; the first two sockets are closed and the third is open.
C18_Witness ==
  /\ Len(chans) = 3
  /\ lastCall = "stop"
  /\ chans[1].state = "closed" /\ chans[2].state = "closed"
  /\ chans[3].state = "open"
  /\ ws = 3

\* C19: while nothing has been cleared, the rendered output followed by the
\* buffer is the concatenation of all fragments appended so far, in call
\* order, the output being the fragments up to the last render pass; a
\* non-empty buffer has exactly one pass scheduled; and every appended
\* fragment is eventually covered by a render pass.
C19_NothingLostOrRepeated ==
  /\ [](cleared = 0 =>
          /\ out \o buffer = Flatten(frags)
          /\ out = Flatten(SubSeq(frags, 1, flushed))
          /\ buffer = Flatten(Pending)
          /\ buffer # <<>> => rafPending /\ rafQueue = 1)
  /\ \A n \in 1..MaxAppends : (Len(frags) >= n) ~> (flushed >= n)

\* C19 witness: appends and render passes have alternated with no clear:
\* two passes have rendered three fragments and a fourth is in the buffer.
C19_Witness ==
  /\ cleared = 0
  /\ paints = 2
  /\ Len(frags) = 4
  /\ flushed = 3
  /\ out = Flatten(SubSeq(frags, 1, 3))
  /\ out # <<>>
  /\ buffer = frags[4]
  /\ buffer # <<>>

\* C20: after a stop() called while this.ws is connecting or open and no
\* backoff timer is pending, and as long as the caller has not called open()
\* again, no heartbeat interval is live for the session, the close event of
\* the stopped socket sets no backoff timer, and no socket is created.
C20_StopIsFinal ==
  [][(stopClean # 0 /\ stopClean' = stopClean) =>
       /\ Len(chans') = Len(chans)
       /\ CloseEvent(stopClean) => timeouts' = timeouts
       /\ heartbeatTimer' # 0 => ~intervals'[heartbeatTimer'].live
    ]_vars

====
